---------------------------- MODULE Spec2Model ----------------------------
(***************************************************************************)
(* A model of the calculator of main.c++: the expression evaluator         *)
(* (tokenize, infixToPostfix, evalPostfix, evaluate) and the event loop of *)
(* main that feeds it.                                                     *)
(*                                                                         *)
(* Strings are sequences of one-character strings.  A double is one of     *)
(*   num  : exactly s*n/d, d a power of two (every such value within the   *)
(*          range below is a double, and IEEE arithmetic on them is exact  *)
(*          whenever the exact result is again of this form);              *)
(*   near : the double nearest to s*n/d, d not a power of two (a decimal   *)
(*          literal such as 0.1, or the correctly rounded quotient of two  *)
(*          num values);                                                   *)
(*   inf  : plus or minus infinity;   nan : not-a-number;                  *)
(*   unt  : a double this model does not compute (out of the range below,  *)
(*          an irrational power, arithmetic on a rounded operand).         *)
(***************************************************************************)
EXTENDS Integers, Sequences, FiniteSets, TLC

\* ------------------------------------------------------------- bounds

\* Largest numerator and denominator the model computes with exactly.
NumCap == 32767
\* Literals of the generated expressions are 0..MaxLit.
MaxLit == 2
\* Longest string over LexChars handed to evaluate.
MaxLen == 4
\* Longest token sequence handed to infixToPostfix and evalPostfix directly.
MaxTokens == 4
\* Longest input buffer the user types (a formatted result may be longer).
MaxInput == 3

\* ------------------------------------------------------------- doubles

Num(s, n, d) == [k |-> "num", s |-> s, n |-> n, d |-> d]
Near(s, n, d) == [k |-> "near", s |-> s, n |-> n, d |-> d]
Inf(s) == [k |-> "inf", s |-> s, n |-> 0, d |-> 1]
NAN == [k |-> "nan", s |-> 1, n |-> 0, d |-> 1]
Untracked == [k |-> "unt", s |-> 1, n |-> 0, d |-> 1]
Zero == Num(1, 0, 1)
One == Num(1, 1, 1)

isnan(v) == v.k = "nan"
IsRational(v) == v.k \in {"num", "near"}
IsZero(v) == v.k = "num" /\ v.n = 0
IsOne(v) == v.k = "num" /\ v.n = 1 /\ v.d = 1 /\ v.s = 1

Abs(x) == IF x < 0 THEN -x ELSE x
Sign(x) == IF x < 0 THEN -1 ELSE 1

RECURSIVE GCD(_, _)
GCD(a, b) == IF b = 0 THEN a ELSE GCD(b, a % b)

RECURSIVE IsPow2(_)
IsPow2(d) == IF d = 1 THEN TRUE ELSE IF d % 2 = 1 THEN FALSE ELSE IsPow2(d \div 2)

\* The double for the exact value s*n/d (n >= 0, d > 0, both below 2^31),
\* correctly rounded: exact when the reduced denominator is a power of two.
Classify(s, n, d) ==
    IF n > NumCap \/ d > NumCap THEN Untracked
    ELSE IF IsPow2(d) THEN Num(s, n, d)
    ELSE Near(s, n, d)

Reduce(s, n, d, g) == Classify(s, n \div g, d \div g)

MkNum(s, n, d) == IF n = 0 THEN Num(s, 0, 1) ELSE Reduce(s, n, d, GCD(n, d))

Neg(v) == IF v.k \in {"num", "near", "inf"} THEN [v EXCEPT !.s = -v.s] ELSE v

\* The sum of two num values whose exact sum is t / (a.d * b.d).
AddExact(a, b, t) ==
    IF t = 0
    THEN Num(IF a.s = -1 /\ b.s = -1 THEN -1 ELSE 1, 0, 1)
    ELSE MkNum(Sign(t), Abs(t), a.d * b.d)

\* a + b
Add(a, b) ==
    IF isnan(a) \/ isnan(b) THEN NAN
    ELSE IF a.k = "inf" /\ b.k = "inf" THEN (IF a.s = b.s THEN a ELSE NAN)
    ELSE IF a.k = "inf" /\ b.k # "unt" THEN a
    ELSE IF b.k = "inf" /\ a.k # "unt" THEN b
    ELSE IF a.k # "num" \/ b.k # "num" THEN
         (IF IsZero(a) /\ b.k = "near" THEN b
          ELSE IF IsZero(b) /\ a.k = "near" THEN a
          ELSE Untracked)
    ELSE AddExact(a, b, a.s * a.n * b.d + b.s * b.n * a.d)

\* a * b
Mul(a, b) ==
    IF isnan(a) \/ isnan(b) THEN NAN
    ELSE IF a.k = "unt" \/ b.k = "unt" THEN Untracked
    ELSE IF a.k = "inf" \/ b.k = "inf" THEN
         (IF IsZero(a) \/ IsZero(b) THEN NAN ELSE Inf(a.s * b.s))
    ELSE IF a.k = "near" \/ b.k = "near" THEN
         (IF IsZero(a) \/ IsZero(b) THEN Num(a.s * b.s, 0, 1)
          ELSE IF IsOne(a) THEN b
          ELSE IF IsOne(b) THEN a
          ELSE Untracked)
    ELSE MkNum(a.s * b.s, a.n * b.n, a.d * b.d)

\* a / b for b that compares unequal to zero
Quot(a, b) ==
    IF isnan(a) \/ isnan(b) THEN NAN
    ELSE IF a.k = "unt" \/ b.k = "unt" THEN Untracked
    ELSE IF a.k = "inf" THEN (IF b.k = "inf" THEN NAN ELSE Inf(a.s * b.s))
    ELSE IF b.k = "inf" THEN
         (IF a.k = "num" THEN Num(a.s * b.s, 0, 1) ELSE Untracked)
    ELSE IF a.k = "near" \/ b.k = "near" THEN
         (IF IsZero(a) THEN Num(a.s * b.s, 0, 1)
          ELSE IF IsOne(b) THEN a
          ELSE Untracked)
    ELSE MkNum(a.s * b.s, a.n * b.d, a.d * b.n)

\* n^e for naturals, or -1 once it leaves the exact range
TimesCapped(p, n) == IF p = -1 \/ p * n > NumCap THEN -1 ELSE p * n

\* p * n^e, or -1: the multiplication stops as soon as the range is left
RECURSIVE TimesPow(_, _, _)
TimesPow(p, n, e) ==
    IF e = 0 \/ p = -1 THEN p ELSE TimesPow(TimesCapped(p, n), n, e - 1)

NatPow(n, e) ==
    IF e = 0 THEN 1
    ELSE IF n <= 1 THEN n
    ELSE TimesPow(1, n, e)

IsOddInt(v) == v.k = "num" /\ v.d = 1 /\ v.n % 2 = 1
IsInt(v) == v.k = "num" /\ v.d = 1

\* a^b for a finite nonzero num a and an integer b, pn = a.n^|b|, pd = a.d^|b|
PowInt(a, b, pn, pd, sg) ==
    IF pn = -1 \/ pd = -1 THEN Untracked
    ELSE IF b.s = 1 THEN MkNum(sg, pn, pd)
    ELSE MkNum(sg, pd, pn)

\* pow(a, b) of <cmath>, IEC 60559 special cases included
pow(a, b) ==
    IF IsZero(b) THEN One
    ELSE IF IsOne(a) THEN One
    ELSE IF isnan(a) \/ isnan(b) THEN (IF a.k = "unt" \/ b.k = "unt" THEN Untracked ELSE NAN)
    ELSE IF a.k = "unt" \/ b.k = "unt" THEN Untracked
    ELSE IF b.k = "inf" THEN
         (IF a.k = "inf" THEN (IF b.s = 1 THEN Inf(1) ELSE Zero)
          ELSE IF a.n = a.d THEN One
          ELSE IF (a.n < a.d) = (b.s = 1) THEN Zero ELSE Inf(1))
    ELSE IF a.k = "inf" THEN
         (IF a.s = 1 THEN (IF b.s = 1 THEN Inf(1) ELSE Zero)
          ELSE IF b.s = 1 THEN (IF IsOddInt(b) THEN Inf(-1) ELSE Inf(1))
          ELSE (IF IsOddInt(b) THEN Num(-1, 0, 1) ELSE Zero))
    ELSE IF IsZero(a) THEN
         (IF b.s = 1 THEN (IF IsOddInt(b) THEN a ELSE Zero)
          ELSE (IF IsOddInt(b) THEN Inf(a.s) ELSE Inf(1)))
    ELSE IF ~IsInt(b) THEN (IF a.s = -1 THEN NAN ELSE Untracked)
    ELSE IF a.k = "near" THEN Untracked
    ELSE PowInt(a, b, NatPow(a.n, b.n), NatPow(a.d, b.n),
                IF a.s = -1 /\ b.n % 2 = 1 THEN -1 ELSE 1)

applyOp(a, b, op) ==
    CASE op = "+" -> Add(a, b)
      [] op = "-" -> Add(a, Neg(b))
      [] op = "*" -> Mul(a, b)
      [] op = "/" -> (IF IsZero(b) THEN NAN
                      ELSE IF b.k = "unt" /\ ~isnan(a) THEN Untracked
                      ELSE Quot(a, b))
      [] op = "^" -> pow(a, b)
      [] OTHER -> NAN


\* ------------------------------------------------------------- "%.6g"

DigitChars == <<"0", "1", "2", "3", "4", "5", "6", "7", "8", "9">>
DigitChar(d) == DigitChars[d + 1]

RECURSIVE NatDigits(_)
NatDigits(n) == IF n < 10 THEN <<n>> ELSE Append(NatDigits(n \div 10), n % 10)

RECURSIVE StripZeros(_)
StripZeros(ds) ==
    IF Len(ds) > 1 /\ ds[Len(ds)] = 0 THEN StripZeros(SubSeq(ds, 1, Len(ds) - 1)) ELSE ds

RECURSIVE Repeat(_, _)
Repeat(c, k) == IF k <= 0 THEN <<>> ELSE <<c>> \o Repeat(c, k - 1)

DigitStr(ds) == [j \in 1..Len(ds) |-> DigitChar(ds[j])]

\* The first six significant decimal digits of n/d (n, d > 0) by long division:
\* m is the six-digit integer, f the number of fraction digits in it, r the
\* remainder left over.
RECURSIVE SigGen(_, _, _, _)
SigGen(m, r, d, f) ==
    IF m >= 100000 THEN [m |-> m, f |-> f, r |-> r]
    ELSE SigGen(m * 10 + (r * 10) \div d, (r * 10) % d, d, f + 1)

\* Whether the model knows how printf rounds v to six digits: a decimal tie of a
\* value that is only the nearest double to n/d falls on either side.
FmtTie(v, g) == 2 * g.r = v.d
FmtKnown(v) ==
    /\ v.k # "unt"
    /\ (v.k = "near" => ~FmtTie(v, SigGen(v.n \div v.d, v.n % v.d, v.d, 0)))

Sgn(v) == IF v.s = -1 THEN <<"-">> ELSE <<>>

\* The digits ds from position from on, after a decimal point, if there are any.
Frac(ds, from) ==
    IF Len(ds) >= from THEN <<".">> \o DigitStr(SubSeq(ds, from, Len(ds))) ELSE <<>>

Min(a, b) == IF a < b THEN a ELSE b

\* Style e: d[.ddddd]e+XX
FmtExp(ds, X) ==
    <<DigitChar(ds[1])>> \o Frac(ds, 2) \o <<"e">>
    \o (IF X < 0 THEN <<"-">> ELSE <<"+">>)
    \o (IF Abs(X) < 10 THEN <<"0">> ELSE <<>>) \o DigitStr(NatDigits(Abs(X)))

\* Style f, trailing zeros removed
FmtFixed(ds, X) ==
    IF X >= 0
    THEN DigitStr(SubSeq(ds, 1, Min(Len(ds), X + 1)))
         \o Repeat("0", X + 1 - Len(ds)) \o Frac(ds, X + 2)
    ELSE <<"0", ".">> \o Repeat("0", -X - 1) \o DigitStr(ds)

\* %g with precision 6 of the value 0.ds * 10^(X+1): style e when the exponent X
\* is below -4 or at least 6.
FmtG(ds, X) == IF X < -4 \/ X >= 6 THEN FmtExp(ds, X) ELSE FmtFixed(ds, X)

\* The six digits m1 (after rounding; 1000000 when the rounding carried out of
\* them) with f fraction digits.
FmtRounded(m1, f) ==
    IF m1 = 1000000 THEN FmtG(<<1>>, 6 - f)
    ELSE FmtG(StripZeros(NatDigits(m1)), 5 - f)

\* Round to nearest, ties to even, on the exact value.
RoundUp(v, g) == 2 * g.r > v.d \/ (2 * g.r = v.d /\ g.m % 2 = 1)
FmtSig(v, g) == FmtRounded(IF RoundUp(v, g) THEN g.m + 1 ELSE g.m, g.f)

\* snprintf(buf, 64, "%.6g", v)
Fmt(v) ==
    IF v.k = "nan" THEN Sgn(v) \o <<"n", "a", "n">>
    ELSE IF v.k = "inf" THEN Sgn(v) \o <<"i", "n", "f">>
    ELSE IF v.k = "unt" THEN <<"?">>
    ELSE IF v.n = 0 THEN Sgn(v) \o <<"0">>
    ELSE Sgn(v) \o FmtSig(v, SigGen(v.n \div v.d, v.n % v.d, v.d, 0))

\* ------------------------------------------------------------- std::stod

isspace(c) == c \in {" ", "\t", "\n", "\r", "\f"}
isdigit(c) == c \in {"0", "1", "2", "3", "4", "5", "6", "7", "8", "9"}
IsHexDigit(c) ==
    isdigit(c) \/ c \in {"a", "b", "c", "d", "e", "f", "A", "B", "C", "D", "E", "F"}

DigitVal(c) ==
    CASE c = "0" -> 0 [] c = "1" -> 1 [] c = "2" -> 2 [] c = "3" -> 3 [] c = "4" -> 4
      [] c = "5" -> 5 [] c = "6" -> 6 [] c = "7" -> 7 [] c = "8" -> 8 [] c = "9" -> 9
      [] c \in {"a", "A"} -> 10 [] c \in {"b", "B"} -> 11 [] c \in {"c", "C"} -> 12
      [] c \in {"d", "D"} -> 13 [] c \in {"e", "E"} -> 14 [] c \in {"f", "F"} -> 15

At(s, i) == IF i >= 1 /\ i <= Len(s) THEN s[i] ELSE ""

\* The first position at or after i that holds no decimal (hexadecimal) digit.
RECURSIVE DigitsEnd(_, _)
DigitsEnd(s, i) == IF isdigit(At(s, i)) THEN DigitsEnd(s, i + 1) ELSE i

RECURSIVE HexEnd(_, _)
HexEnd(s, i) == IF IsHexDigit(At(s, i)) THEN HexEnd(s, i + 1) ELSE i

DigitVals(s, from, to) == [j \in 1..(to - from) |-> DigitVal(s[from + j - 1])]

RECURSIVE StripLeadingZeros(_)
StripLeadingZeros(ds) ==
    IF Len(ds) > 0 /\ ds[1] = 0 THEN StripLeadingZeros(Tail(ds)) ELSE ds

RECURSIVE StripTrailingZeros(_)
StripTrailingZeros(ds) ==
    IF Len(ds) > 0 /\ ds[Len(ds)] = 0
    THEN StripTrailingZeros(SubSeq(ds, 1, Len(ds) - 1)) ELSE ds

\* The natural number written by the digits ds in the given base; the caller
\* keeps ds short enough for the result to stay below 2^31.
RECURSIVE NatOf(_, _)
NatOf(ds, base) ==
    IF Len(ds) = 0 THEN 0
    ELSE NatOf(SubSeq(ds, 1, Len(ds) - 1), base) * base + ds[Len(ds)]

RECURSIVE Pow10(_)
Pow10(e) == IF e = 0 THEN 1 ELSE 10 * Pow10(e - 1)

RECURSIVE Pow2(_)
Pow2(e) == IF e = 0 THEN 1 ELSE 2 * Pow2(e - 1)

\* An exponent field [sign] digits at position i: its end and value (the value
\* saturates at 9999, far outside the range of a double), or no field at all.
ExpMag(ds) == IF Len(ds) > 4 THEN 9999 ELSE NatOf(ds, 10)
ExpDigits(s, i, from, to) ==
    [ok |-> to > from, end |-> to,
     val |-> IF At(s, i) = "-"
             THEN -ExpMag(StripLeadingZeros(DigitVals(s, from, to)))
             ELSE ExpMag(StripLeadingZeros(DigitVals(s, from, to)))]
ExpFrom(s, i, from) == ExpDigits(s, i, from, DigitsEnd(s, from))
ExpField(s, i) == ExpFrom(s, i, IF At(s, i) \in {"+", "-"} THEN i + 1 ELSE i)
NoExp(at) == [ok |-> FALSE, end |-> at, val |-> 0]

\* ds < es for digit sequences read as decimal fractions 0.d1d2... (a missing
\* digit is a zero)
RECURSIVE FracLess(_, _)
FracLess(ds, es) ==
    IF Len(es) = 0 THEN FALSE
    ELSE LET d == IF Len(ds) = 0 THEN 0 ELSE ds[1]
         IN  IF d < es[1] THEN TRUE
             ELSE IF d > es[1] THEN FALSE
             ELSE FracLess(IF Len(ds) = 0 THEN ds ELSE Tail(ds), Tail(es))

\* The leading digits of 2^1024 - 2^970 (1.797...e308), the least decimal that
\* rounds to infinity, and of 2^-1022 (2.225...e-308), the least normal double.
OverflowDigits == <<1, 7, 9, 7, 6, 9, 3, 1, 3, 4, 8, 6, 2, 3, 1, 5, 8, 0, 7, 9, 3>>
MinNormalDigits == <<2, 2, 2, 5, 0, 7, 3, 8, 5, 8, 5, 0, 7, 2, 0, 1, 3, 8, 3, 0, 9>>

\* strtod's ERANGE for the decimal 0.ds * 10^(X+1), ds without leading zeros:
\* the value overflows, or is below the normal range (and so inexact).
DecOutOfRange(ds, X) ==
    \/ X > 308
    \/ (X = 308 /\ ~FracLess(ds, OverflowDigits))
    \/ X < -308
    \/ (X = -308 /\ FracLess(ds, MinNormalDigits))

\* The double for the decimal digits sig (an integer, no trailing zero) times
\* 10^sc.
DecScaled(sig, sc) ==
    IF Len(sig) = 0 THEN Zero
    ELSE IF Len(sig) > 5 THEN Untracked
    ELSE IF sc >= 0 THEN (IF sc > 4 THEN Untracked
                          ELSE MkNum(1, NatOf(sig, 10) * Pow10(sc), 1))
    ELSE IF -sc > 9 THEN Untracked
    ELSE MkNum(1, NatOf(sig, 10), Pow10(-sc))

DecStripped(ds, sig, scale) == DecScaled(sig, scale + (Len(ds) - Len(sig)))

\* The double for the decimal digits ds (an integer) times 10^scale.
DecValue(ds, scale) == DecStripped(ds, StripTrailingZeros(ds), scale)

\* The double for the hexadecimal digits hs (an integer) times 2^scale.
HexValue(hs, scale) ==
    IF Len(hs) = 0 THEN Zero
    ELSE IF Len(hs) > 4 THEN Untracked
    ELSE IF scale >= 0 THEN (IF scale > 14 THEN Untracked
                             ELSE MkNum(1, NatOf(hs, 16) * Pow2(scale), 1))
    ELSE IF -scale > 30 THEN Untracked
    ELSE MkNum(1, NatOf(hs, 16), Pow2(-scale))

\* A literal of strtod: whether anything converts, where it ends, whether the
\* value is out of range (ERANGE), and the value.
HexResult(ok, end, hs, scale) ==
    [ok |-> ok, end |-> end,
     range |-> Len(hs) > 0 /\ (scale > 1023 \/ scale < -1090),
     val |-> HexValue(hs, scale)]

DecResult(ok, end, ds, scale) ==
    [ok |-> ok, end |-> end,
     range |-> Len(ds) > 0 /\ DecOutOfRange(ds, Len(ds) - 1 + scale),
     val |-> DecValue(ds, scale)]

\* The mantissa s[i..a-1] [. s[a+1..b-1]] (b = a when there is no point), nfrac
\* digits after the point, followed by the exponent field ex.
HexMantissa(s, i, a, b, nfrac, ex) ==
    HexResult((a - i) + nfrac > 0,
              IF ex.ok THEN ex.end ELSE b,
              StripLeadingZeros(DigitVals(s, i, a)
                                \o (IF b > a THEN DigitVals(s, a + 1, b) ELSE <<>>)),
              (IF ex.ok THEN ex.val ELSE 0) - 4 * nfrac)

DecMantissa(s, i, a, b, nfrac, ex) ==
    DecResult((a - i) + nfrac > 0,
              IF ex.ok THEN ex.end ELSE b,
              StripLeadingZeros(DigitVals(s, i, a)
                                \o (IF b > a THEN DigitVals(s, a + 1, b) ELSE <<>>)),
              (IF ex.ok THEN ex.val ELSE 0) - nfrac)

HexPoint(s, i, a, b) ==
    HexMantissa(s, i, a, b, IF b > a THEN b - (a + 1) ELSE 0,
                IF At(s, b) \in {"p", "P"} THEN ExpField(s, b + 1) ELSE NoExp(b))

DecPoint(s, i, a, b) ==
    DecMantissa(s, i, a, b, IF b > a THEN b - (a + 1) ELSE 0,
                IF At(s, b) \in {"e", "E"} THEN ExpField(s, b + 1) ELSE NoExp(b))

HexDigitsFrom(s, i, a) == HexPoint(s, i, a, IF At(s, a) = "." THEN HexEnd(s, a + 1) ELSE a)
DecDigitsFrom(s, i, a) == DecPoint(s, i, a, IF At(s, a) = "." THEN DigitsEnd(s, a + 1) ELSE a)

\* strtod on the hexadecimal digits after a prefix 0x that ends before i; ok is
\* FALSE when no hexadecimal digit follows.
HexLiteral(s, i) == HexDigitsFrom(s, i, HexEnd(s, i))

\* strtod on a decimal literal at position i; ok is FALSE when there is no digit.
DecLiteral(s, i) == DecDigitsFrom(s, i, DigitsEnd(s, i))

HasHexPrefix(s, i) == At(s, i) = "0" /\ At(s, i + 1) \in {"x", "X"}

StodResult(i, lit) ==
    IF ~lit.ok \/ lit.range
    THEN [threw |-> TRUE, val |-> NAN, len |-> 0]
    ELSE [threw |-> FALSE, val |-> lit.val, len |-> lit.end - i]

StodHex(expr, i, hex) == StodResult(i, IF hex.ok THEN hex ELSE DecLiteral(expr, i))

\* double val = std::stod(expr.substr(i), &len), called where expr[i] is a digit
\* or '.': threw is TRUE when stod throws (std::invalid_argument when nothing
\* converts, std::out_of_range on ERANGE).
stod(expr, i) ==
    IF HasHexPrefix(expr, i) THEN StodHex(expr, i, HexLiteral(expr, i + 2))
    ELSE StodResult(i, DecLiteral(expr, i))

\* ------------------------------------------------------------- tokenize

NumberToken(v) == [type |-> "NUMBER", value |-> v, op |-> ""]
OperatorToken(c) == [type |-> "OPERATOR", value |-> Zero, op |-> c]
LParenToken == [type |-> "LPAREN", value |-> Zero, op |-> ""]
RParenToken == [type |-> "RPAREN", value |-> Zero, op |-> ""]

IsOperatorChar(c) == c \in {"+", "-", "*", "/", "^"}

\* Faulty variant: an unrecognized character becomes an operator token.
PushSymbolAny(tokens, c) ==
    IF c = "(" THEN Append(tokens, [type |-> "LPAREN", value |-> Zero, op |-> ""])
    ELSE IF c = ")" THEN Append(tokens, [type |-> "RPAREN", value |-> Zero, op |-> ""])
    ELSE Append(tokens, [type |-> "OPERATOR", value |-> Zero, op |-> c])

\* The token, if any, of a character that is neither a space nor the start of a
\* number.
PushSymbol(tokens, c) ==
    IF IsOperatorChar(c) THEN Append(tokens, OperatorToken(c))
    ELSE IF c = "(" THEN Append(tokens, LParenToken)
    ELSE IF c = ")" THEN Append(tokens, RParenToken)
    ELSE tokens

\* The loop of tokenize from cursor i (1-based) with the tokens pushed so far;
\* AfterStod continues it with the result r of std::stod.
RECURSIVE TokenizeFrom(_, _, _)
RECURSIVE AfterStod(_, _, _, _)
AfterStod(expr, i, tokens, r) ==
    IF r.threw THEN [threw |-> TRUE, tokens |-> tokens]
    ELSE TokenizeFrom(expr, i + r.len, Append(tokens, NumberToken(r.val)))

TokenizeFrom(expr, i, tokens) ==
    IF i > Len(expr) THEN [threw |-> FALSE, tokens |-> tokens]
    ELSE IF isspace(expr[i]) THEN TokenizeFrom(expr, i + 1, tokens)
    ELSE IF isdigit(expr[i]) \/ expr[i] = "." THEN AfterStod(expr, i, tokens, stod(expr, i))
    ELSE TokenizeFrom(expr, i + 1, PushSymbol(tokens, expr[i]))

tokenize(expr) == TokenizeFrom(expr, 1, <<>>)

\* ------------------------------------------------------------- infixToPostfix

\* Faulty variant: * and / rank with + and -.
precedenceFlat(op) ==
    CASE op = "^" -> 4
      [] op \in {"*", "/", "+", "-"} -> 2
      [] OTHER -> 0

precedence(op) ==
    CASE op = "^" -> 4
      [] op \in {"*", "/"} -> 3
      [] op \in {"+", "-"} -> 2
      [] OTHER -> 0

\* A stack is a sequence whose last element is the top.
Top(stk) == stk[Len(stk)]
Pop(stk) == SubSeq(stk, 1, Len(stk) - 1)

\* Faulty variant: every operator is left-associative.
PopsBeforeLeftAssoc(top, t) == precedence(top.op) >= precedence(t.op)

\* The condition under which the operator on top of the stack is moved to the
\* output before the incoming operator t is pushed.
PopsBefore(top, t) ==
    \/ precedence(top.op) > precedence(t.op)
    \/ (precedence(top.op) = precedence(t.op) /\ t.op # "^")

\* while (!ops.empty() && ops.top().type == OPERATOR) { if (...) pop else break }
RECURSIVE PopOperators(_, _)
PopOperators(cs, t) ==
    IF Len(cs.ops) > 0 /\ Top(cs.ops).type = "OPERATOR" /\ PopsBefore(Top(cs.ops), t)
    THEN PopOperators([output |-> Append(cs.output, Top(cs.ops)), ops |-> Pop(cs.ops)], t)
    ELSE cs

\* while (!ops.empty() && ops.top().type != LPAREN) pop to the output
RECURSIVE PopToLParen(_)
PopToLParen(cs) ==
    IF Len(cs.ops) > 0 /\ Top(cs.ops).type # "LPAREN"
    THEN PopToLParen([output |-> Append(cs.output, Top(cs.ops)), ops |-> Pop(cs.ops)])
    ELSE cs

\* ops.push(t)
Push(cs, t) == [cs EXCEPT !.ops = Append(@, t)]

\* if (!ops.empty() && ops.top().type == LPAREN) ops.pop();
DropLParen(cs) ==
    IF Len(cs.ops) > 0 /\ Top(cs.ops).type = "LPAREN" THEN [cs EXCEPT !.ops = Pop(@)] ELSE cs

\* One iteration of the loop over the tokens: cs is [output, ops].
ConvertToken(cs, t) ==
    IF t.type = "NUMBER" THEN [cs EXCEPT !.output = Append(@, t)]
    ELSE IF t.type = "OPERATOR" THEN Push(PopOperators(cs, t), t)
    ELSE IF t.type = "LPAREN" THEN Push(cs, t)
    ELSE IF t.type = "RPAREN" THEN DropLParen(PopToLParen(cs))
    ELSE cs

\* Faulty variant: the flush drops the left parentheses instead of emitting them.
RECURSIVE FlushOpsSkipParens(_)
FlushOpsSkipParens(cs) ==
    IF Len(cs.ops) > 0
    THEN FlushOpsSkipParens([output |-> IF Top(cs.ops).type = "LPAREN" THEN cs.output
                                        ELSE Append(cs.output, Top(cs.ops)),
                             ops |-> Pop(cs.ops)])
    ELSE cs

\* while (!ops.empty()) { output.push_back(ops.top()); ops.pop(); }
RECURSIVE FlushOps(_)
FlushOps(cs) ==
    IF Len(cs.ops) > 0
    THEN FlushOps([output |-> Append(cs.output, Top(cs.ops)), ops |-> Pop(cs.ops)])
    ELSE cs

RECURSIVE ConvertFrom(_, _, _)
ConvertFrom(tokens, k, cs) ==
    IF k > Len(tokens) THEN cs ELSE ConvertFrom(tokens, k + 1, ConvertToken(cs, tokens[k]))

infixToPostfix(tokens) ==
    FlushOps(ConvertFrom(tokens, 1, [output |-> <<>>, ops |-> <<>>])).output

\* ------------------------------------------------------------- evalPostfix

\* Faulty variant: every token that is not a number is applied as an operator.
EvalTokenStrict(es, t) ==
    IF t.type = "NUMBER" THEN [es EXCEPT !.st = Append(@, t.value)]
    ELSE IF Len(es.st) < 2 THEN [es EXCEPT !.ret = TRUE]
    ELSE [es EXCEPT !.st = Append(SubSeq(@, 1, Len(@) - 2),
                                  applyOp(@[Len(@) - 1], @[Len(@)], t.op))]

\* One iteration of the loop over the postfix tokens: es is [st, ret], ret TRUE
\* once the loop has returned NAN for want of two operands.
EvalToken(es, t) ==
    IF t.type = "NUMBER" THEN [es EXCEPT !.st = Append(@, t.value)]
    ELSE IF t.type = "OPERATOR" THEN
         IF Len(es.st) < 2 THEN [es EXCEPT !.ret = TRUE]
         ELSE [es EXCEPT !.st = Append(SubSeq(@, 1, Len(@) - 2),
                                       applyOp(@[Len(@) - 1], @[Len(@)], t.op))]
    ELSE es

\* Faulty variant: surplus values are ignored.
EvalReturnLenient(st) == IF Len(st) = 0 THEN NAN ELSE Top(st)

\* if (st.size() != 1) return NAN; return st.top();
EvalReturn(st) == IF Len(st) # 1 THEN NAN ELSE Top(st)

RECURSIVE EvalFrom(_, _, _)
EvalFrom(postfix, j, es) ==
    IF es.ret THEN NAN
    ELSE IF j > Len(postfix) THEN EvalReturn(es.st)
    ELSE EvalFrom(postfix, j + 1, EvalToken(es, postfix[j]))

evalPostfix(postfix) == EvalFrom(postfix, 1, [st |-> <<>>, ret |-> FALSE])

\* ------------------------------------------------------------- evaluate

\* evaluate(expr): threw is TRUE when the exception of std::stod leaves it.
EvaluateTokens(tk) ==
    IF tk.threw THEN [threw |-> TRUE, value |-> NAN]
    ELSE [threw |-> FALSE, value |-> evalPostfix(infixToPostfix(tk.tokens))]

evaluate(expr) == EvaluateTokens(tokenize(expr))

\* ------------------------------------------------------------- state

VARIABLES
    input,      \* main: std::string input, the buffer on display
    quit,       \* main: bool quit
    running,    \* main: "loop" while events are polled, "exited" after the loop,
                \*       "terminated" after an exception left main
    lastEvent,  \* the kind of the event handled last
    expr,       \* evaluate: its argument
    tokens,     \* evaluate: auto tokens; infixToPostfix: its argument
    postfix,    \* evaluate: auto postfix; evalPostfix: its argument
    result,     \* the double returned by evalPostfix
    pc,         \* the statement of evaluate (or loop) the call is at
    k,          \* the position of the range-for loop in tokens or postfix
    output,     \* infixToPostfix: std::vector<Token> output
    ops,        \* infixToPostfix: std::stack<Token> ops
    st          \* evalPostfix: std::stack<double> st

vars == <<input, quit, running, lastEvent, expr, tokens, postfix, result, pc, k,
          output, ops, st>>
uiVars == <<input, quit, running, lastEvent>>
callVars == <<expr, tokens, postfix, result, pc, k, output, ops, st>>

\* The value of a double that has not been assigned, and the argument of an
\* evaluate that was not called.
NoResult == [k |-> "none", s |-> 1, n |-> 0, d |-> 1]
NoExpr == <<"(not called)">>

\* ------------------------------------------------------------- inputs

Str(ds) == DigitStr(ds)
Lit(v) == DigitStr(NatDigits(v))
Lits == {Lit(v) : v \in 0..MaxLit}
AllOps == {"+", "-", "*", "/", "^"}
Binary(L, R) == {l \o <<op>> \o r : l \in L, op \in AllOps, r \in R}
Paren(E) == {<<"(">> \o e \o <<")">> : e \in E}

\* a op b, and x op y for x, y a literal, a op b or (a op b)
Exprs1 == Binary(Lits, Lits)
Operands == Lits \cup Exprs1 \cup Paren(Exprs1)
Exprs2 == Binary(Operands, Operands)
\* (a op (b op c))
Nested == Paren(Binary(Lits, Paren(Exprs1)))

LexChars == {"0", "1", ".", "e", "x", "q", "+", "-", " ", "("}
Strings(chars, n) == UNION {[1..m -> chars] : m \in 0..n}

\* The expressions the specification document evaluates.
SpecExamples ==
    { <<"2", "+", "3", "*", "4">>, <<"(", "2", "+", "3", ")", "*", "4">>,
      <<"2", "^", "3", "^", "2">>, <<"5", "/", "0">>, <<>>, <<"3", "+">>,
      <<"1", " ", "2">>, <<"2", "*", "(", "3", "+", "4">>, <<".">>,
      <<"1", "+", ".">> }

EvalInputs == Exprs1 \cup Exprs2 \cup Nested \cup Strings(LexChars, MaxLen) \cup SpecExamples

TokenAlphabet ==
    { NumberToken(One), NumberToken(Num(1, 2, 1)), OperatorToken("+"),
      OperatorToken("*"), OperatorToken("/"), OperatorToken("^"),
      LParenToken, RParenToken }
TokenSeqs == UNION {[1..m -> TokenAlphabet] : m \in 0..MaxTokens}

\* ------------------------------------------------------------- evaluate, call by call

UiIdle == input = <<>> /\ quit = FALSE /\ running = "loop" /\ lastEvent = "none"

InitEvaluate ==
    /\ UiIdle
    /\ expr \in EvalInputs
    /\ pc = "tokenize"
    /\ tokens = <<>> /\ postfix = <<>> /\ result = NoResult
    /\ k = 1 /\ output = <<>> /\ ops = <<>> /\ st = <<>>

\* auto tokens = tokenize(expr);
CallTokenize ==
    /\ pc = "tokenize"
    /\ \E tk \in {tokenize(expr)} :
           IF tk.threw
           THEN pc' = "thrown" /\ UNCHANGED tokens
           ELSE pc' = "convert" /\ tokens' = tk.tokens
    /\ UNCHANGED <<expr, postfix, result, k, output, ops, st>>
    /\ UNCHANGED uiVars

\* auto postfix = infixToPostfix(tokens);
CallInfixToPostfix ==
    /\ pc = "convert"
    /\ postfix' = infixToPostfix(tokens)
    /\ pc' = "eval"
    /\ UNCHANGED <<expr, tokens, result, k, output, ops, st>>
    /\ UNCHANGED uiVars

\* return evalPostfix(postfix);
CallEvalPostfix ==
    /\ pc = "eval"
    /\ result' = evalPostfix(postfix)
    /\ pc' = "done"
    /\ UNCHANGED <<expr, tokens, postfix, k, output, ops, st>>
    /\ UNCHANGED uiVars

NextEvaluate == CallTokenize \/ CallInfixToPostfix \/ CallEvalPostfix

SpecEvaluate == InitEvaluate /\ [][NextEvaluate]_vars

\* ------------------------------------------------------------- the loops, token by token

\* Entry at evaluate (on the document's examples), at infixToPostfix or at
\* evalPostfix (on every short token sequence).
InitSteps ==
    /\ UiIdle
    /\ result = NoResult /\ k = 1 /\ output = <<>> /\ ops = <<>> /\ st = <<>>
    /\ \/ pc = "tokenize" /\ expr \in SpecExamples /\ tokens = <<>> /\ postfix = <<>>
       \/ pc = "convert" /\ expr = NoExpr /\ tokens \in TokenSeqs /\ postfix = <<>>
       \/ pc = "eval" /\ expr = NoExpr /\ tokens = <<>> /\ postfix \in TokenSeqs

\* for (auto& t : tokens) { ... }: one iteration of infixToPostfix
ConvertStep ==
    /\ pc = "convert"
    /\ k <= Len(tokens)
    /\ \E cs \in {ConvertToken([output |-> output, ops |-> ops], tokens[k])} :
           output' = cs.output /\ ops' = cs.ops
    /\ k' = k + 1
    /\ UNCHANGED <<expr, tokens, postfix, result, pc, st>>
    /\ UNCHANGED uiVars

\* The loop over the tokens is over: flush the stack, return output.
ConvertFlush ==
    /\ pc = "convert"
    /\ k > Len(tokens)
    /\ \E cs \in {FlushOps([output |-> output, ops |-> ops])} :
           output' = cs.output /\ ops' = cs.ops /\ postfix' = cs.output
    /\ pc' = "eval"
    /\ k' = 1
    /\ UNCHANGED <<expr, tokens, result, st>>
    /\ UNCHANGED uiVars

\* for (auto& t : postfix) { ... }: one iteration of evalPostfix
EvalStep ==
    /\ pc = "eval"
    /\ k <= Len(postfix)
    /\ \E es \in {EvalToken([st |-> st, ret |-> FALSE], postfix[k])} :
           IF es.ret
           THEN result' = NAN /\ pc' = "done" /\ UNCHANGED <<st, k>>
           ELSE st' = es.st /\ k' = k + 1 /\ UNCHANGED <<result, pc>>
    /\ UNCHANGED <<expr, tokens, postfix, output, ops>>
    /\ UNCHANGED uiVars

\* The loop over the postfix tokens is over.
EvalFinish ==
    /\ pc = "eval"
    /\ k > Len(postfix)
    /\ result' = EvalReturn(st)
    /\ pc' = "done"
    /\ UNCHANGED <<expr, tokens, postfix, k, output, ops, st>>
    /\ UNCHANGED uiVars

NextSteps == CallTokenize \/ ConvertStep \/ ConvertFlush \/ EvalStep \/ EvalFinish

SpecSteps == InitSteps /\ [][NextSteps]_vars

\* ------------------------------------------------------------- main: the event loop

btnCols == 4
btnW == 80
btnH == 60
btnMargin == 10
startX == 20
startY == 150

\* std::vector<Button> buttons: label and inputChar ("" for the char 0)
Button(label, inputChar) == [label |-> label, inputChar |-> inputChar]
buttons ==
    << Button("1", "1"), Button("2", "2"), Button("3", "3"), Button("/", "/"),
       Button("4", "4"), Button("5", "5"), Button("6", "6"), Button("x", "*"),
       Button("7", "7"), Button("8", "8"), Button("9", "9"), Button("-", "-"),
       Button("0", "0"), Button("(", "("), Button(")", ")"), Button(".", "."),
       Button("+", "+"), Button("C", ""), Button("=", ""), Button("^", "^") >>

\* buttons[i].rect after the layout loop (i counts from 1 here, from 0 there)
RectX(i) == startX + ((i - 1) % btnCols) * (btnW + btnMargin)
RectY(i) == startY + ((i - 1) \div btnCols) * (btnH + btnMargin)

\* The hit test of the click handler.
Hit(i, mx, my) ==
    /\ mx >= RectX(i) /\ mx <= RectX(i) + btnW
    /\ my >= RectY(i) /\ my <= RectY(i) + btnH

\* What "=" and Enter leave in the buffer: threw is TRUE when evaluate threw.
ShowResult(r) ==
    IF r.threw THEN [threw |-> TRUE, input |-> <<>>]
    ELSE IF isnan(r.value) THEN [threw |-> FALSE, input |-> <<>>]
    ELSE [threw |-> FALSE, input |-> Fmt(r.value)]

\* The body of the click handler for a button that is hit.
Press(btn, buf) ==
    IF btn.label = "C" THEN [threw |-> FALSE, input |-> <<>>]
    ELSE IF btn.label = "=" THEN ShowResult(evaluate(buf))
    ELSE [threw |-> FALSE, input |-> Append(buf, btn.inputChar)]

\* for (auto& btn : buttons) if (hit) { ... } from button i on
RECURSIVE ClickFrom(_, _, _, _)
RECURSIVE AfterPress(_, _, _, _, _)
AfterPress(i, buf, mx, my, r) ==
    IF r.threw THEN [threw |-> TRUE, input |-> buf] ELSE ClickFrom(i + 1, r.input, mx, my)

ClickFrom(i, buf, mx, my) ==
    IF i > Len(buttons) THEN [threw |-> FALSE, input |-> buf]
    ELSE IF Hit(i, mx, my) THEN AfterPress(i, buf, mx, my, Press(buttons[i], buf))
    ELSE ClickFrom(i + 1, buf, mx, my)

\* The buttons the model clicks on (1 2 / x - 0 . C =), each at its centre; the
\* last pixel of "C" and of "="; and two points just outside a button.
ClickedButtons == {1, 2, 4, 8, 12, 13, 16, 18, 19}
ClickPoints ==
    {<<RectX(i) + btnW \div 2, RectY(i) + btnH \div 2>> : i \in ClickedButtons}
    \cup {<<RectX(i) + btnW, RectY(i) + btnH>> : i \in {18, 19}}
    \cup {<<RectX(1) + btnW + 1, RectY(1)>>, <<RectX(19) + btnW, RectY(19) + btnH + 1>>}

\* The labels of the buttons a click at (mx, my) hits.
LabelsAt(mx, my) == {buttons[i].label : i \in {j \in 1..Len(buttons) : Hit(j, mx, my)}}

\* The model evaluates a buffer only while it computes the value and its digits.
Computed(buf) ==
    \A r \in {evaluate(buf)} : r.threw \/ isnan(r.value) \/ FmtKnown(r.value)

Keys == {"BACKSPACE", "RETURN", "KP_ENTER", "ESCAPE", "LEFT", "RIGHT", "OTHER"}
TextChars == {"2", "-", "a"}

Init ==
    /\ UiIdle
    /\ expr = NoExpr /\ tokens = <<>> /\ postfix = <<>> /\ result = NoResult
    /\ pc = "idle" /\ k = 1 /\ output = <<>> /\ ops = <<>> /\ st = <<>>

\* An exception that leaves evaluate leaves main: std::terminate.
Outcome(r) ==
    /\ input' = r.input
    /\ running' = IF r.threw THEN "terminated" ELSE running

\* e.type == SDL_QUIT
Quit ==
    /\ running = "loop"
    /\ quit' = TRUE
    /\ lastEvent' = "other"
    /\ UNCHANGED <<input, running>>
    /\ UNCHANGED callVars

\* e.type == SDL_MOUSEBUTTONDOWN && e.button.button == SDL_BUTTON_LEFT
MouseButtonDown(mx, my) ==
    /\ running = "loop"
    /\ "=" \in LabelsAt(mx, my) => Computed(input)
    /\ (LabelsAt(mx, my) \ {"C", "="} # {}) => Len(input) < MaxInput
    /\ Outcome(ClickFrom(1, input, mx, my))
    /\ lastEvent' = IF "=" \in LabelsAt(mx, my) THEN "equals"
                    ELSE IF "C" \in LabelsAt(mx, my) THEN "clear"
                    ELSE "other"
    /\ UNCHANGED quit
    /\ UNCHANGED callVars

\* Faulty variant: Enter leaves the buffer alone when the evaluation fails.
KeepOnFailure(r, buf) == IF ~r.threw /\ r.input = <<>> THEN [r EXCEPT !.input = buf] ELSE r
KeyResultKeep(key, buf) ==
    IF key = "BACKSPACE" /\ Len(buf) > 0
    THEN [threw |-> FALSE, input |-> SubSeq(buf, 1, Len(buf) - 1)]
    ELSE IF key \in {"RETURN", "KP_ENTER"} THEN KeepOnFailure(ShowResult(evaluate(buf)), buf)
    ELSE [threw |-> FALSE, input |-> buf]

\* The buffer after a key press.
KeyResult(key, buf) ==
    IF key = "BACKSPACE" /\ Len(buf) > 0
    THEN [threw |-> FALSE, input |-> SubSeq(buf, 1, Len(buf) - 1)]
    ELSE IF key \in {"RETURN", "KP_ENTER"} THEN ShowResult(evaluate(buf))
    ELSE [threw |-> FALSE, input |-> buf]

\* e.type == SDL_KEYDOWN
KeyDown(key) ==
    /\ running = "loop"
    /\ key \in {"RETURN", "KP_ENTER"} => Computed(input)
    /\ Outcome(KeyResult(key, input))
    /\ quit' = IF key = "ESCAPE" /\ ~(key = "BACKSPACE" /\ Len(input) > 0) THEN TRUE ELSE quit
    /\ lastEvent' = IF key \in {"RETURN", "KP_ENTER"} THEN "enter" ELSE "other"
    /\ UNCHANGED callVars

\* The characters the text handler appends.
Accepted(c) == isdigit(c) \/ c \in {"+", "-", "*", "/", ".", "(", ")", "^"}

\* e.type == SDL_TEXTINPUT
TextInput(c) ==
    /\ running = "loop"
    /\ Accepted(c) => Len(input) < MaxInput
    /\ input' = IF Accepted(c) THEN Append(input, c) ELSE input
    /\ lastEvent' = "other"
    /\ UNCHANGED <<quit, running>>
    /\ UNCHANGED callVars

\* while (!quit): the inner loop has drained the event queue with quit set
ExitLoop ==
    /\ running = "loop"
    /\ quit
    /\ running' = "exited"
    /\ UNCHANGED <<input, quit, lastEvent>>
    /\ UNCHANGED callVars

Next ==
    \/ Quit
    \/ \E p \in ClickPoints : MouseButtonDown(p[1], p[2])
    \/ \E key \in Keys : KeyDown(key)
    \/ \E c \in TextChars : TextInput(c)
    \/ ExitLoop

Spec == Init /\ [][Next]_vars

\* ------------------------------------------------------------------------
\* Properties.  Helper operators of the properties are written from the
\* statements they check, independently of the definitions above.
\* ------------------------------------------------------------------------

\* The value v is the integer z (a zero of either sign is 0).
IsInteger(v, z) == v.k = "num" /\ v.d = 1 /\ v.s * v.n = z

\* The end of the run of decimal digits of s that starts at i.
RECURSIVE RefDigitsEnd(_, _)
RefDigitsEnd(s, i) == IF i <= Len(s) /\ isdigit(s[i]) THEN RefDigitsEnd(s, i + 1) ELSE i

\* The integer whose decimal digits are s[i..j-1].
RECURSIVE RefNat(_, _, _)
RefNat(s, i, j) == IF j <= i THEN 0 ELSE 10 * RefNat(s, i, j - 1) + DigitVal(s[j - 1])

RefFail == [ok |-> FALSE, val |-> 0, next |-> 0]
RefCombine(left, op, right) ==
    IF ~right.ok THEN RefFail
    ELSE [ok |-> TRUE,
          val |-> CASE op = "+" -> left.val + right.val
                    [] op = "-" -> left.val - right.val
                    [] OTHER -> left.val * right.val,
          next |-> right.next]
RefClose(s, e) ==
    IF e.ok /\ e.next <= Len(s) /\ s[e.next] = ")" THEN [e EXCEPT !.next = @ + 1] ELSE RefFail

\* A recursive-descent evaluator of the integer expressions over + - * and
\* parentheses, with the usual precedence and left-to-right grouping:
\*    expr ::= term (("+" | "-") term)*     term ::= factor ("*" factor)*
\*    factor ::= digits | "(" expr ")"
RECURSIVE RefExpr(_, _), RefExprLoop(_, _), RefTerm(_, _), RefTermLoop(_, _), RefFactor(_, _)
RefFactor(s, i) ==
    IF i > Len(s) THEN RefFail
    ELSE IF s[i] = "(" THEN RefClose(s, RefExpr(s, i + 1))
    ELSE IF isdigit(s[i])
    THEN [ok |-> TRUE, val |-> RefNat(s, i, RefDigitsEnd(s, i)), next |-> RefDigitsEnd(s, i)]
    ELSE RefFail
RefTermLoop(s, left) ==
    IF left.ok /\ left.next <= Len(s) /\ s[left.next] = "*"
    THEN RefTermLoop(s, RefCombine(left, "*", RefFactor(s, left.next + 1)))
    ELSE left
RefTerm(s, i) == RefTermLoop(s, RefFactor(s, i))
RefExprLoop(s, left) ==
    IF left.ok /\ left.next <= Len(s) /\ s[left.next] \in {"+", "-"}
    THEN RefExprLoop(s, RefCombine(left, s[left.next], RefTerm(s, left.next + 1)))
    ELSE left
RefExpr(s, i) == RefExprLoop(s, RefTerm(s, i))

\* s is a well-formed expression over + - * and parentheses.
IsArith(s) == s # NoExpr /\ RefExpr(s, 1).ok /\ RefExpr(s, 1).next = Len(s) + 1
RefValue(s) == RefExpr(s, 1).val

\* C1: on every well-formed expression over +, - and * with parentheses,
\* evaluate returns the value of the reference evaluator that gives * the higher
\* precedence and groups left to right; "2+3*4" is 14 and "(2+3)*4" is 20.
C1_MatchesReference ==
    /\ pc = "done" /\ IsArith(expr) /\ result.k # "unt" => IsInteger(result, RefValue(expr))
    /\ pc = "done" /\ expr = <<"2", "+", "3", "*", "4">> => result = Num(1, 14, 1)
    /\ pc = "done" /\ expr = <<"(", "2", "+", "3", ")", "*", "4">> => result = Num(1, 20, 1)

C1_Witness ==
    /\ pc = "done" /\ expr = <<"(", "2", "+", "3", ")", "*", "4">> /\ IsArith(expr) /\ RefValue(expr) = 20
    /\ result = Num(1, 20, 1)

\* s is a o1 b o2 c with one-digit operands and two operators of one precedence.
RefRank(op) == CASE op = "^" -> 3 [] op \in {"*", "/"} -> 2 [] OTHER -> 1
IsChain(s) ==
    /\ Len(s) = 5
    /\ isdigit(s[1]) /\ isdigit(s[3]) /\ isdigit(s[5])
    /\ s[2] \in AllOps /\ s[4] \in AllOps
    /\ RefRank(s[2]) = RefRank(s[4])
Operand(c) == Num(1, DigitVal(c), 1)
Tok(c) == IF isdigit(c) THEN [type |-> "NUMBER", value |-> Operand(c), op |-> ""]
          ELSE [type |-> "OPERATOR", value |-> Zero, op |-> c]
LeftGrouped(s) == applyOp(applyOp(Operand(s[1]), Operand(s[3]), s[2]), Operand(s[5]), s[4])
RightGrouped(s) == applyOp(Operand(s[1]), applyOp(Operand(s[3]), Operand(s[5]), s[4]), s[2])

\* C2: for a o1 b o2 c with operators of equal precedence the converter pops
\* o1 before pushing o2 exactly when o2 is not ^, so the postfix is a b o1 c o2
\* unless o2 is ^, when it is a b c o2 o1; evaluate groups ^ from right to left
\* and the other operators from left to right; "2^3^2" is 512.
C2_Associativity ==
    /\ pc \in {"eval", "done"} /\ IsChain(expr) =>
          postfix = IF expr[4] = "^"
                    THEN <<Tok(expr[1]), Tok(expr[3]), Tok(expr[5]), Tok(expr[4]), Tok(expr[2])>>
                    ELSE <<Tok(expr[1]), Tok(expr[3]), Tok(expr[2]), Tok(expr[5]), Tok(expr[4])>>
    /\ pc = "done" /\ IsChain(expr) =>
          result = IF expr[4] = "^" THEN RightGrouped(expr) ELSE LeftGrouped(expr)
    /\ pc = "done" /\ expr = <<"2", "^", "3", "^", "2">> => result = Num(1, 512, 1)

C2_Witness ==
    /\ pc = "done" /\ expr = <<"2", "^", "3", "^", "2">> /\ IsChain(expr)
    /\ result = Num(1, 512, 1) /\ LeftGrouped(expr) = Num(1, 64, 1)

\* C3: evaluate returns normally on every input string: no call ends with an
\* exception leaving evaluate.
C3_NeverThrows == pc # "thrown"

\* s is a well-formed infix expression over numbers, the five operators and
\* parentheses (no unary sign): operands and operators alternate and the
\* parentheses balance.
RECURSIVE WellFormedFrom(_, _, _, _)
WellFormedFrom(s, i, depth, wantOperand) ==
    IF i > Len(s) THEN ~wantOperand /\ depth = 0
    ELSE IF isdigit(s[i]) THEN wantOperand /\ WellFormedFrom(s, RefDigitsEnd(s, i), depth, FALSE)
    ELSE IF s[i] = "(" THEN wantOperand /\ WellFormedFrom(s, i + 1, depth + 1, TRUE)
    ELSE IF s[i] = ")" THEN ~wantOperand /\ depth > 0 /\ WellFormedFrom(s, i + 1, depth - 1, FALSE)
    ELSE IF s[i] \in AllOps THEN ~wantOperand /\ WellFormedFrom(s, i + 1, depth, TRUE)
    ELSE FALSE
WellFormed(s) == s # NoExpr /\ WellFormedFrom(s, 1, 0, TRUE)

\* The evaluation of the postfix sequence p performs a division whose divisor
\* is zero: vals are the values on the stack before token j.
RECURSIVE DividesByZeroFrom(_, _, _)
DividesByZeroFrom(p, j, vals) ==
    IF j > Len(p) THEN FALSE
    ELSE IF p[j].type = "NUMBER" THEN DividesByZeroFrom(p, j + 1, Append(vals, p[j].value))
    ELSE IF p[j].type # "OPERATOR" THEN DividesByZeroFrom(p, j + 1, vals)
    ELSE IF Len(vals) < 2 THEN FALSE
    ELSE \/ p[j].op = "/" /\ IsZero(vals[Len(vals)])
         \/ DividesByZeroFrom(p, j + 1,
                Append(SubSeq(vals, 1, Len(vals) - 2),
                       applyOp(vals[Len(vals) - 1], vals[Len(vals)], p[j].op)))
DividesByZero(p) == DividesByZeroFrom(p, 1, <<>>)

\* C4: when the evaluation of a well-formed expression divides by zero
\* anywhere, evaluate returns the failure sentinel NaN.
C4_DivisionByZeroFails ==
    pc = "done" /\ WellFormed(expr) /\ DividesByZero(postfix) => isnan(result)

\* Two results are the same number.
SameValue(v, w) ==
    \/ v.k = "unt" \/ w.k = "unt"
    \/ v.k = w.k /\ v.k \in {"num", "near"} /\ v.n * w.d = w.n * v.d /\ (v.n = 0 \/ v.s = w.s)
    \/ v.k = w.k /\ v.k = "inf" /\ v.s = w.s

\* The value shown is the value computed: "%.6g" prints it without rounding.
PrintsExactly(v) == v.k = "num" /\ v.d = 1 /\ v.n < 1000000

\* C5: when evaluate succeeds with a value v that "%.6g" prints exactly,
\* evaluating the printed text gives v again.
C5_ChainingIdempotent ==
    pc = "done" /\ ~isnan(result) /\ PrintsExactly(result) =>
        /\ ~evaluate(Fmt(result)).threw
        /\ ~isnan(evaluate(Fmt(result)).value)
        /\ SameValue(evaluate(Fmt(result)).value, result)

\* The stack of evalPostfix holds fewer than two values at an operator.
Underflow == pc = "eval" /\ k <= Len(postfix) /\ postfix[k].type = "OPERATOR" /\ Len(st) < 2

\* C6: evalPostfix returns NaN at once when an operator finds fewer than two
\* values on the stack, and goes on otherwise; at the end of the tokens it
\* returns the single value left, or NaN when the stack does not hold exactly
\* one value; evaluate gives NaN on "", "3+" and "1 2".
C6_EvalPostfixFailures ==
    /\ [][/\ Underflow => pc' = "done" /\ isnan(result') /\ k' = k /\ st' = st
          /\ pc = "eval" /\ k <= Len(postfix) /\ ~Underflow => pc' = "eval" /\ k' = k + 1
          /\ pc = "eval" /\ k > Len(postfix) =>
                /\ pc' = "done"
                /\ result' = IF Len(st) = 1 THEN st[1] ELSE NAN]_vars
    /\ [](pc = "done" /\ expr \in {<<>>, <<"3", "+">>, <<"1", " ", "2">>} => isnan(result))

C6_Witness ==
    /\ pc = "done" /\ isnan(result)
    /\ k < Len(postfix) /\ postfix[k].type = "OPERATOR" /\ Len(st) = 1

\* A character the tokenizer does not recognise.
IsStray(c) ==
    c \notin {"0", "1", "2", "3", "4", "5", "6", "7", "8", "9", ".",
              "+", "-", "*", "/", "^", "(", ")", " ", "\t", "\n", "\r"}

\* s with every unrecognised character replaced by a space.
Blank(s) == [i \in 1..Len(s) |-> IF IsStray(s[i]) THEN " " ELSE s[i]]

\* The number parser, started at a digit or "." of s, consumes an unrecognised
\* character (an exponent marker, a hexadecimal prefix or digit).
RECURSIVE StrayInNumberFrom(_, _)
StrayInNumberAfter(s, i, r) ==
    IF r.threw THEN FALSE
    ELSE \/ \E j \in i..(i + r.len - 1) : IsStray(s[j])
         \/ StrayInNumberFrom(s, i + r.len)
StrayInNumberFrom(s, i) ==
    IF i > Len(s) THEN FALSE
    ELSE IF isdigit(s[i]) \/ s[i] = "." THEN StrayInNumberAfter(s, i, stod(s, i))
    ELSE StrayInNumberFrom(s, i + 1)
StrayInNumber(s) == StrayInNumberFrom(s, 1)

\* tokenize has just returned or thrown, on a string that holds an unrecognised
\* character.
Tokenized == pc \in {"convert", "thrown"} /\ expr # NoExpr
HasStray(s) == \E i \in 1..Len(s) : IsStray(s[i])

\* tokenize gives on the string what it gives on the blanked string.
SameAsBlanked ==
    /\ pc = "thrown" <=> tokenize(Blank(expr)).threw
    /\ pc # "thrown" => tokens = tokenize(Blank(expr)).tokens

\* C7 as stated: replacing every unrecognised character of any string by a
\* space leaves the result of tokenize unchanged.
C7_StrayIsSpace == Tokenized /\ HasStray(expr) => SameAsBlanked

\* C7 amended: the same, on the strings in which the number parser consumes no
\* unrecognised character.
C7_StrayOutsideNumbersIsSpace ==
    Tokenized /\ HasStray(expr) /\ ~StrayInNumber(expr) => SameAsBlanked

C7_Witness ==
    /\ pc = "convert" /\ ~StrayInNumber(expr) /\ Len(tokens) >= 2
    /\ \E i \in 1..(Len(expr) - 1) : isdigit(expr[i]) /\ IsStray(expr[i + 1])
    /\ tokens = tokenize(Blank(expr)).tokens

\* Counting tokens.
RECURSIVE CountType(_, _)
CountType(ts, ty) ==
    IF ts = <<>> THEN 0
    ELSE (IF Head(ts).type = ty THEN 1 ELSE 0) + CountType(Tail(ts), ty)
RECURSIVE CountOp(_, _)
CountOp(ts, c) ==
    IF ts = <<>> THEN 0
    ELSE (IF Head(ts).type = "OPERATOR" /\ Head(ts).op = c THEN 1 ELSE 0) + CountOp(Tail(ts), c)
IsNumberToken(t) == t.type = "NUMBER"

\* The left parentheses of ts that no later right parenthesis closes: open is
\* the number of those seen and not yet closed.
RECURSIVE UnmatchedFrom(_, _)
UnmatchedFrom(ts, open) ==
    IF ts = <<>> THEN open
    ELSE IF Head(ts).type = "LPAREN" THEN UnmatchedFrom(Tail(ts), open + 1)
    ELSE IF Head(ts).type = "RPAREN" /\ open > 0 THEN UnmatchedFrom(Tail(ts), open - 1)
    ELSE UnmatchedFrom(Tail(ts), open)
Unmatched(ts) == UnmatchedFrom(ts, 0)

Reversed(q) == [i \in 1..Len(q) |-> q[Len(q) + 1 - i]]

\* infixToPostfix has returned.
Converted == pc \in {"eval", "done"} /\ ~(expr = NoExpr /\ tokens = <<>> /\ postfix # <<>>)

\* C8: infixToPostfix completes on every token sequence, balanced or not, with
\* its stack empty; the output holds every number (in order) and every operator
\* of the input exactly once, no right parenthesis, and one left parenthesis
\* for each unmatched left parenthesis of the input; a right parenthesis with
\* no left parenthesis on the stack moves the whole stack to the output.
C8_UnbalancedParens ==
    /\ [](Converted =>
            /\ ops = <<>> /\ postfix = output
            /\ SelectSeq(postfix, IsNumberToken) = SelectSeq(tokens, IsNumberToken)
            /\ \A c \in AllOps : CountOp(postfix, c) = CountOp(tokens, c)
            /\ CountType(postfix, "RPAREN") = 0
            /\ CountType(postfix, "LPAREN") = Unmatched(tokens)
            /\ Len(postfix) = CountType(tokens, "NUMBER") + CountType(tokens, "OPERATOR")
                                + Unmatched(tokens))
    /\ [][pc = "convert" /\ k <= Len(tokens) /\ tokens[k].type = "RPAREN"
            /\ CountType(ops, "LPAREN") = 0
          => pc' = "convert" /\ k' = k + 1 /\ ops' = <<>> /\ output' = output \o Reversed(ops)]_vars

C8_Witness ==
    /\ Converted /\ pc = "eval" /\ k = 1
    /\ CountType(tokens, "RPAREN") >= 1 /\ Unmatched(tokens) >= 1
    /\ CountType(tokens, "LPAREN") > Unmatched(tokens)
    /\ CountType(postfix, "LPAREN") = Unmatched(tokens)

\* What "=" and Enter show for the buffer buf.
Shown(buf) == IF isnan(evaluate(buf).value) THEN <<>> ELSE Fmt(evaluate(buf).value)

\* C9: when the handler of an "=" click or of Enter completes, the buffer is
\* empty if the evaluation of the old buffer gave NaN and is its "%.6g" text
\* otherwise, on both paths alike; a click on "C" leaves the buffer empty.
C9_ResultDisplay ==
    [][/\ lastEvent' \in {"equals", "enter"} /\ running = "loop" /\ running' = "loop"
            => ~evaluate(input).threw /\ input' = Shown(input)
       /\ lastEvent' = "clear" /\ running = "loop" /\ running' = "loop" => input' = <<>>]_vars

C9_Witness == lastEvent = "equals" /\ running = "loop" /\ input = <<"0", ".", "5">>

\* The number of ")" characters that end s.
RECURSIVE TrailingParens(_)
TrailingParens(s) ==
    IF s # <<>> /\ s[Len(s)] = ")" THEN 1 + TrailingParens(SubSeq(s, 1, Len(s) - 1)) ELSE 0
DropLast(s, j) == SubSeq(s, 1, Len(s) - j)

\* C10: removing one or more of the ")" characters that end a well-formed
\* expression leaves the result of evaluate unchanged: the unmatched left
\* parentheses reach the postfix output, where evalPostfix ignores them;
\* "2*(3+4" is 14.
C10_UnclosedParens ==
    /\ pc = "done" /\ WellFormed(expr) =>
          \A j \in 1..TrailingParens(expr) :
              /\ ~evaluate(DropLast(expr, j)).threw
              /\ evaluate(DropLast(expr, j)).value = result
              /\ CountType(infixToPostfix(tokenize(DropLast(expr, j)).tokens), "LPAREN") = j
    /\ pc = "done" /\ expr = <<"2", "*", "(", "3", "+", "4">> => result = Num(1, 14, 1)

C10_Witness ==
    /\ pc = "done" /\ WellFormed(expr) /\ TrailingParens(expr) = 2 /\ result.k = "num"
    /\ evaluate(DropLast(expr, 2)).value = result

====
